---------------------------- MODULE Spec2Model ----------------------------
(***************************************************************************)
(* A model of start.py: the device resolution and container-invocation     *)
(* pipeline (TTYDeviceFinder, DeviceMapper, DockerCommand, DockerRunner,   *)
(* DockerStarter, main).                                                   *)
(*                                                                         *)
(* Python values are modelled as follows.                                  *)
(*   str          a TLA+ string; an f-string is a concatenation with \o    *)
(*   None         the reserved string None (no configuration string of the *)
(*                model equals it)                                         *)
(*   dict         a function whose DOMAIN is the set of keys present       *)
(*   list         a sequence                                               *)
(* Messages that the source writes in Chinese or with the glyphs U+2713 /  *)
(* U+2717 are written here in ASCII.                                       *)
(***************************************************************************)
EXTENDS Integers, Sequences, FiniteSets, TLC

VARIABLES
    config,       \* the parsed configuration file (fixed during a run)
    host,         \* the host: udev database, file system, process environment
    dry_run,      \* args.dry_run
    force,        \* args.force
    pc,           \* position of the process in main / start / run
    tty_devices,  \* TTYDeviceFinder.tty_devices
    request,      \* arguments of a direct find_by_usb_id call
    found,        \* result of that call
    executed,     \* external commands executed so far, in order
    results,      \* what each of them did: results[k] is the result of executed[k]
    deviceWork,   \* device work performed so far: scans, matches, path checks
    command,      \* the argument list DockerCommand.build returned, if any
    stdout,       \* lines written by print()
    container,    \* state of the same-named container on the host
    firstBuild,   \* the argument list of an earlier build (for comparison)
    interrupted,  \* the external call a KeyboardInterrupt arrived in, or None
    exitCode      \* process exit status, -1 while the process runs

vars == <<config, host, dry_run, force, pc, tty_devices, request, found,
          executed, results, deviceWork, command, stdout, container, firstBuild,
          interrupted, exitCode>>

-----------------------------------------------------------------------------
(* Bounds of the model *)

MaxNodes == 2      \* tty nodes present on the host
MaxDevices == 2    \* entries of the "devices" list
MaxVolumes == 1    \* entries of the "volumes" list

-----------------------------------------------------------------------------
(* Python primitives *)

None == "<None>"

\* truthiness of an Optional[str]
Truthy(v) == v # None /\ v # ""

\* dict.get(key) with the default None
Get(d, k) == IF k \in DOMAIN d THEN d[k] ELSE None

\* x or y, for Optional[str]
Or(x, y) == IF Truthy(x) THEN x ELSE y

\* str(v) for a string or None
Str(v) == IF v = None THEN "None" ELSE v

\* all orders in which the members of a finite set can be listed
Perms(S) ==
    { p \in [1..Cardinality(S) -> S] : \A x \in S : \E i \in DOMAIN p : p[i] = x }

RECURSIVE Join(_, _)
\* sep.join(list)
Join(list, sep) ==
    IF list = <<>> THEN ""
    ELSE IF Len(list) = 1 THEN list[1]
    ELSE list[1] \o sep \o Join(Tail(list), sep)

-----------------------------------------------------------------------------
(* Device nodes and their order *)

\* The tty nodes a host of the model may have.
NodePool == {"/dev/ttyACM0", "/dev/ttyUSB0", "/dev/ttyUSB10", "/dev/ttyUSB2"}

\* The code points of a node path after the common prefix "/dev/tty".
CodePoints(path) ==
    CASE path = "/dev/ttyACM0"  -> <<65, 67, 77, 48>>
      [] path = "/dev/ttyUSB0"  -> <<85, 83, 66, 48>>
      [] path = "/dev/ttyUSB10" -> <<85, 83, 66, 49, 48>>
      [] path = "/dev/ttyUSB2"  -> <<85, 83, 66, 50>>

RECURSIVE SeqLess(_, _)
\* Python's < on two strings, by code point, a proper prefix being smaller
SeqLess(a, b) ==
    IF b = <<>> THEN FALSE
    ELSE IF a = <<>> THEN TRUE
    ELSE IF Head(a) # Head(b) THEN Head(a) < Head(b)
    ELSE SeqLess(Tail(a), Tail(b))

StrLess(p, q) == SeqLess(CodePoints(p), CodePoints(q))

RECURSIVE Insert(_, _)
Insert(x, s) ==
    IF s = <<>> THEN <<x>>
    ELSE IF StrLess(x, Head(s)) THEN <<x>> \o s
    ELSE <<Head(s)>> \o Insert(x, Tail(s))

RECURSIVE sorted(_)
\* sorted(list)
sorted(s) == IF s = <<>> THEN <<>> ELSE Insert(Head(s), sorted(Tail(s)))

\* the nodes glob.glob(pattern) lists, for the patterns '/dev/ttyUSB*' (85)
\* and '/dev/ttyACM*' (65): the order of the listing is the directory's
GlobSet(first) == { n \in DOMAIN host.udev : CodePoints(n)[1] = first }

\* the scan with the final sort forgotten
_scan_unsorted(usbListing, acmListing) == usbListing \o acmListing

\* TTYDeviceFinder._scan_tty_devices, given the two glob listings
_scan_tty_devices(usbListing, acmListing) == sorted(usbListing \o acmListing)

\* TTYDeviceFinder._get_device_info: the udev properties of the node, {} when
\* udevadm fails or the node is gone
EmptyDict == [k \in {} |-> None]
_get_device_info(tty_device) ==
    IF tty_device \in DOMAIN host.udev THEN host.udev[tty_device] ELSE EmptyDict

\* the same test with the interface filter forgotten
NodeAcceptedNoInterface(info, vendor_id, product_id, usb_interface, usb_serial) ==
    /\ Get(info, "ID_VENDOR_ID") = vendor_id
    /\ Get(info, "ID_MODEL_ID") = product_id
    /\ ~(usb_serial # None /\ Get(info, "ID_SERIAL") # usb_serial)

\* the test one node passes in find_by_usb_id
NodeAccepted(info, vendor_id, product_id, usb_interface, usb_serial) ==
    /\ Get(info, "ID_VENDOR_ID") = vendor_id
    /\ Get(info, "ID_MODEL_ID") = product_id
    /\ ~(usb_interface # None /\ Get(info, "ID_USB_INTERFACE_NUM") # usb_interface)
    /\ ~(usb_serial # None /\ Get(info, "ID_SERIAL") # usb_serial)

RECURSIVE find_in(_, _, _, _, _)
find_in(devs, vendor_id, product_id, usb_interface, usb_serial) ==
    IF devs = <<>> THEN None
    ELSE IF NodeAccepted(_get_device_info(Head(devs)),
                         vendor_id, product_id, usb_interface, usb_serial)
         THEN Head(devs)
         ELSE find_in(Tail(devs), vendor_id, product_id, usb_interface, usb_serial)

\* TTYDeviceFinder.find_by_usb_id
find_by_usb_id(vendor_id, product_id, usb_interface, usb_serial) ==
    find_in(tty_devices, vendor_id, product_id, usb_interface, usb_serial)

-----------------------------------------------------------------------------
(* The configuration model *)

\* DeviceConfig
Device(name, path, enabled, options, usb_vendor, usb_product, usb_interface, usb_serial, container_path) ==
    [name |-> name, path |-> path, enabled |-> enabled, options |-> options,
     usb_vendor |-> usb_vendor, usb_product |-> usb_product,
     usb_interface |-> usb_interface, usb_serial |-> usb_serial,
     container_path |-> container_path]

\* DeviceConfig.is_usb_device
is_usb_device(device) == device.usb_vendor # None /\ device.usb_product # None

\* DeviceConfig.effective_container_path
effective_container_path(device) == Or(device.container_path, "/dev/" \o device.name)

\* VolumeConfig.expanded_source: os.path.expanduser on the source, which is
\* held as the list of its components between the "/" separators
expanded_source(volume) ==
    IF volume.source # <<>> /\ Head(volume.source) = "~"
    THEN Join(<<host.environ["HOME"]>> \o Tail(volume.source), "/")
    ELSE Join(volume.source, "/")

\* the decimal digits of str(n)
Digit(d) ==
    CASE d = 0 -> "0" [] d = 1 -> "1" [] d = 2 -> "2" [] d = 3 -> "3" [] d = 4 -> "4"
      [] d = 5 -> "5" [] d = 6 -> "6" [] d = 7 -> "7" [] d = 8 -> "8" [] d = 9 -> "9"

RECURSIVE ItoA(_)
\* str(n) for a non-negative int
ItoA(n) == IF n < 10 THEN Digit(n) ELSE ItoA(n \div 10) \o Digit(n % 10)

\* EnvironmentConfig.get_display
get_display(environment) ==
    IF environment.auto_detect_display
    THEN (IF "DISPLAY" \in DOMAIN host.environ
          THEN host.environ["DISPLAY"] ELSE environment.display)
    ELSE environment.display

\* EnvironmentConfig.get_pulse_server
get_pulse_server(environment) ==
    IF Truthy(environment.pulse_server) THEN environment.pulse_server
    ELSE "unix:/run/user/" \o ItoA(host.uid) \o "/pulse/native"

\* The "container" section of the YAML document, as the function from the key
\* paths that exist in it to their values; a nested mapping has the value Dict.
Dict == "<dict>"
Absent == "<absent>"

ContainerDoc(name, repository, tag) ==
    LET leaves == { l \in { <<<<"container", "name">>, name>>,
                            <<<<"container", "image", "repository">>, repository>>,
                            <<<<"container", "image", "tag">>, tag>> } : l[2] # Absent }
        keys == {<<"container">>, <<"container", "image">>} \cup { l[1] : l \in leaves }
    IN [k \in keys |-> IF \E l \in leaves : l[1] = k
                         THEN (CHOOSE l \in leaves : l[1] = k)[2] ELSE Dict]

\* reduce(getitem, keys, config) raises KeyError or TypeError exactly when the
\* key path does not exist in the document
\* DockerStarter._get_config (the path '.a.b' is given as its keys <<a, b>>)
_get_config(keys, default) ==
    IF config.doc = EmptyDict THEN default
    ELSE IF keys \in DOMAIN config.doc THEN Str(config.doc[keys])
    ELSE default

\* ConfigLoader.parse_container raises AttributeError ('NoneType' has no 'get')
\* when the container section or its image section is null
parse_container_raises ==
    \/ Get(config.doc, <<"container">>) = None /\ <<"container">> \in DOMAIN config.doc
    \/ Get(config.doc, <<"container", "image">>) = None
          /\ <<"container", "image">> \in DOMAIN config.doc

\* ConfigLoader.parse_container: dict.get with its defaults
container_config ==
    [name |-> IF <<"container", "name">> \in DOMAIN config.doc
              THEN config.doc[<<"container", "name">>] ELSE "docker-container",
     image_repository |-> IF <<"container", "image", "repository">> \in DOMAIN config.doc
              THEN config.doc[<<"container", "image", "repository">>] ELSE "ubuntu",
     image_tag |-> IF <<"container", "image", "tag">> \in DOMAIN config.doc
              THEN config.doc[<<"container", "image", "tag">>] ELSE "latest"]

-----------------------------------------------------------------------------
(* DeviceMapper *)

\* os.path.exists
path_exists(path) == path \in host.paths \/ path \in DOMAIN host.udev

\* DeviceMapper.map_usb_device
map_usb_device(device) ==
    IF ~is_usb_device(device) THEN None
    ELSE find_by_usb_id(device.usb_vendor, device.usb_product,
                        device.usb_interface, device.usb_serial)

\* the loop of map_devices with the enabled test forgotten
AllIndexes(devices) == [i \in 1..Len(devices) |-> i]

\* the entries the loop of map_devices does not skip, by index
Considered(devices) ==
    SelectSeq([i \in 1..Len(devices) |-> i], LAMBDA i : devices[i].enabled)

\* the device-argument string of a resolved USB device
UsbDeviceArg(tty_device, device) ==
    tty_device \o ":" \o effective_container_path(device) \o ":rw"

\* one iteration of the loop of map_devices: the tuple appended to
\* mapped_devices
MapOne(device) ==
    IF is_usb_device(device)
    THEN LET tty_device == map_usb_device(device) IN
         IF Truthy(tty_device)
         THEN [device |-> device, tty_device |-> tty_device,
               device_arg |-> UsbDeviceArg(tty_device, device)]
         ELSE [device |-> device, tty_device |-> None,
               device_arg |-> "USB device not found " \o device.usb_vendor
                                 \o ":" \o device.usb_product]
    ELSE IF Truthy(device.path) /\ path_exists(device.path)
    THEN [device |-> device, tty_device |-> device.path,
          device_arg |-> device.path \o ":" \o device.options]
    ELSE [device |-> device, tty_device |-> None,
          device_arg |-> "device path does not exist: " \o Str(device.path)]

\* mapped_devices at the end of the loop of map_devices
mapped_devices(devices) ==
    LET idx == Considered(devices) IN [k \in 1..Len(idx) |-> MapOne(devices[idx[k]])]

\* failed_devices at the end of the loop of map_devices
failed_devices(devices) ==
    LET failed == SelectSeq(mapped_devices(devices), LAMBDA m : m.tty_device = None)
    IN [k \in 1..Len(failed) |-> <<failed[k].device.name, failed[k].device_arg>>]

\* the host lookups the loop of map_devices makes: a USB match or a path check
\* for entry i
DeviceLookups(devices) ==
    LET idx == Considered(devices) IN
    { <<"match", idx[k]>> : k \in { j \in 1..Len(idx) : is_usb_device(devices[idx[j]]) } }
    \cup
    { <<"exists", idx[k]>> : k \in { j \in 1..Len(idx) :
          ~is_usb_device(devices[idx[j]]) /\ Truthy(devices[idx[j]].path) } }

-----------------------------------------------------------------------------
(* DockerCommand and the argument builders of DockerRunner *)

RECURSIVE Flatten(_)
\* the concatenation of a list of lists
Flatten(lists) == IF lists = <<>> THEN <<>> ELSE Head(lists) \o Flatten(Tail(lists))

\* DockerRunner._build_volume_args
_build_volume_args ==
    LET enabled == SelectSeq(config.volumes, LAMBDA v : v.enabled) IN
    Flatten([k \in 1..Len(enabled) |->
        <<"-v", expanded_source(enabled[k]) \o ":" \o enabled[k].target
                  \o ":" \o enabled[k].options>>])

\* the mapped devices _build_device_args adds to the command
ResolvedMappings ==
    SelectSeq(mapped_devices(config.devices), LAMBDA m : Truthy(m.tty_device))

\* DockerRunner._build_device_args, when map_devices returns
_build_device_args ==
    Flatten([k \in 1..Len(ResolvedMappings) |->
        <<"--device", ResolvedMappings[k].device_arg>>])

\* DockerRunner._log_device_mapping
_log_device_mapping(m) ==
    IF dry_run THEN "[ok] " \o m.device.name
    ELSE IF is_usb_device(m.device)
    THEN "add USB device mapping: " \o m.tty_device \o " -> "
            \o effective_container_path(m.device) \o " (" \o m.device.name \o ")"
            \o (IF m.device.usb_interface # None
                THEN " [interface:" \o m.device.usb_interface \o "]" ELSE "")
            \o (IF m.device.usb_serial # None
                THEN " [serial:" \o m.device.usb_serial \o "...]" ELSE "")
    ELSE "add device mapping: " \o m.device.path

\* DockerRunner._build_environment_args
_build_environment_args ==
    <<"-e", "ROS_DOMAIN_ID=" \o ItoA(config.environment.ros_domain_id),
      "-e", "ROS_LOCALHOST_ONLY=" \o ItoA(config.environment.ros_localhost_only),
      "-e", "DISPLAY=" \o get_display(config.environment),
      "-e", "PULSE_SERVER=" \o get_pulse_server(config.environment)>>

\* str.split(): the words of the option string, which is held as the list of
\* its maximal runs of whitespace and of other characters
IsSpace(piece) == piece \in {" ", "  "}
split(pieces) == SelectSeq(pieces, LAMBDA piece : ~IsSpace(piece))

\* the network argument with the comparison to 'bridge' forgotten
NetworkArgAlways(network) == network

\* the network argument _build_docker_command gives DockerCommand
NetworkArg(network) == IF network # "bridge" THEN network ELSE None

\* DockerRunner._build_docker_command
_build_docker_command(container_name, image_name) ==
    [base_cmd |-> <<"docker", "run", "-d">>,
     name |-> container_name,
     image |-> image_name,
     network |-> NetworkArg(config.resources.network),
     privileged |-> config.resources.privileged,
     gpu_options |-> IF config.resources.gpu_enabled
                     THEN config.resources.gpu_options ELSE <<>>,
     volumes |-> _build_volume_args,
     devices |-> _build_device_args,
     environment |-> _build_environment_args]

\* DockerCommand.build with devices and volumes in the other order
build_swapped(cmd) ==
    cmd.base_cmd
    \o (IF Truthy(cmd.name) THEN <<"--name", cmd.name>> ELSE <<>>)
    \o (IF Truthy(cmd.network) THEN <<"--network", cmd.network>> ELSE <<>>)
    \o (IF cmd.privileged THEN <<"--privileged">> ELSE <<>>)
    \o (IF cmd.gpu_options # <<>> THEN split(cmd.gpu_options) ELSE <<>>)
    \o cmd.devices
    \o cmd.volumes
    \o cmd.environment
    \o (IF Truthy(cmd.image) THEN <<cmd.image, "tail", "-f", "/dev/null">> ELSE <<>>)

\* DockerCommand.build
build(cmd) ==
    cmd.base_cmd
    \o (IF Truthy(cmd.name) THEN <<"--name", cmd.name>> ELSE <<>>)
    \o (IF Truthy(cmd.network) THEN <<"--network", cmd.network>> ELSE <<>>)
    \o (IF cmd.privileged THEN <<"--privileged">> ELSE <<>>)
    \o (IF cmd.gpu_options # <<>> THEN split(cmd.gpu_options) ELSE <<>>)
    \o cmd.volumes
    \o cmd.devices
    \o cmd.environment
    \o (IF Truthy(cmd.image) THEN <<cmd.image, "tail", "-f", "/dev/null">> ELSE <<>>)

-----------------------------------------------------------------------------
(* Hosts *)

\* udev property sets a node may have; the first is udevadm's failure
InfoPool ==
    { EmptyDict,
      [ID_VENDOR_ID |-> "10c4", ID_MODEL_ID |-> "ea60",
       ID_USB_INTERFACE_NUM |-> "00", ID_SERIAL |-> "S0"],
      [ID_VENDOR_ID |-> "10c4", ID_MODEL_ID |-> "ea60",
       ID_USB_INTERFACE_NUM |-> "01", ID_SERIAL |-> "S0"],
      [ID_VENDOR_ID |-> "10c4", ID_MODEL_ID |-> "ea60",
       ID_USB_INTERFACE_NUM |-> "00", ID_SERIAL |-> "S1"],
      [ID_VENDOR_ID |-> "10c4", ID_MODEL_ID |-> "ea60", ID_SERIAL |-> "S0"],
      [ID_VENDOR_ID |-> "10c4", ID_MODEL_ID |-> "6001",
       ID_USB_INTERFACE_NUM |-> "00", ID_SERIAL |-> "S0"],
      [ID_VENDOR_ID |-> "0403", ID_MODEL_ID |-> "6001",
       ID_USB_INTERFACE_NUM |-> "00", ID_SERIAL |-> "S0"] }

\* every udev database over at most MaxNodes nodes of the pool
UdevDatabases ==
    UNION { [S -> InfoPool] : S \in { T \in SUBSET NodePool : Cardinality(T) <= MaxNodes } }

DefaultEnviron == [DISPLAY |-> ":1", HOME |-> "/home/dev"]

MatchRequests ==
    [vendor_id : {"10c4"}, product_id : {"ea60", "6001"},
     usb_interface : {None, "00", "01"}, usb_serial : {None, "S0", "S1"}]

\* the nodes of the hosts a whole run is checked on: none; one adapter; one
\* adapter with two interfaces, whose nodes sort as ttyUSB10 < ttyUSB2
LifecycleUdevs ==
    { EmptyDict,
      [n \in {"/dev/ttyUSB0"} |->
          [ID_VENDOR_ID |-> "10c4", ID_MODEL_ID |-> "ea60",
           ID_USB_INTERFACE_NUM |-> "00", ID_SERIAL |-> "S0"]],
      [n \in {"/dev/ttyUSB10", "/dev/ttyUSB2"} |->
          [ID_VENDOR_ID |-> "10c4", ID_MODEL_ID |-> "ea60",
           ID_USB_INTERFACE_NUM |-> IF n = "/dev/ttyUSB2" THEN "01" ELSE "00",
           ID_SERIAL |-> "S0"]] }

-----------------------------------------------------------------------------
(* Configurations *)

SeqsUpTo(S, n) == UNION { [1..k -> S] : k \in 0..n }

DevicePool ==
    { Device("lidar", None, TRUE, "rw", "10c4", "ea60", None, None, None),
      Device("imu", None, TRUE, "ro", "10c4", "ea60", "01", None, "/dev/imu0"),
      Device("cam", "/dev/video0", TRUE, "rwm", None, None, None, None, None),
      Device("gps", None, TRUE, "rw", "10c4", None, None, None, None),
      Device("spare", None, FALSE, "rw", "10c4", "ea60", None, None, None),
      Device("cam2", "/dev/video0", FALSE, "rw", None, None, None, None, None) }

Volume(source, target, enabled, options) ==
    [source |-> source, target |-> target, enabled |-> enabled, options |-> options]

VolumePool ==
    { Volume(<<"~", "ws">>, "/ws", TRUE, "rw"),
      Volume(<<"", "data">>, "/data", TRUE, "ro"),
      Volume(<<"~", "off">>, "/off", FALSE, "rw") }

DefaultResources ==
    [network |-> "bridge", privileged |-> FALSE, gpu_enabled |-> FALSE,
     gpu_options |-> <<"--gpus", " ", "all">>]

ResourcePool ==
    [network : {"bridge", "host", "", None}, privileged : BOOLEAN,
     gpu_enabled : BOOLEAN,
     gpu_options : { <<"--gpus", " ", "all">>,
                     <<" ", "--runtime=nvidia", "  ", "--gpus", " ", "all", " ">> }]

DefaultEnvironment ==
    [ros_domain_id |-> 0, ros_localhost_only |-> 0, display |-> ":0",
     auto_detect_display |-> TRUE, pulse_server |-> None]

EnvironmentPool ==
    [ros_domain_id : {0}, ros_localhost_only : {0}, display : {":0"},
     auto_detect_display : BOOLEAN, pulse_server : {None, "tcp:10.0.0.1"}]

ValidDoc == ContainerDoc("dev", "ubuntu", "latest")

\* documents with one of the three required fields absent, null or empty,
\* and documents whose container or image section is null
DocPool ==
    { ContainerDoc(n, "ubuntu", "latest") : n \in {"dev", Absent, None, ""} }
    \cup { ContainerDoc("dev", r, "latest") : r \in {Absent, None, ""} }
    \cup { ContainerDoc("dev", "ubuntu", t) : t \in {Absent, None, ""} }
    \cup { [k \in {<<"container">>} |-> None],
           [k \in {<<"container">>, <<"container", "name">>, <<"container", "image">>} |->
               IF k = <<"container">> THEN Dict
               ELSE IF k = <<"container", "name">> THEN "dev" ELSE None] }

TwoDevices ==
    << Device("lidar", None, TRUE, "rw", "10c4", "ea60", None, None, None),
       Device("cam", "/dev/video0", TRUE, "rwm", None, None, None, None, None) >>

FullHost ==
    [udev |-> [n \in {"/dev/ttyUSB0"} |->
                  [ID_VENDOR_ID |-> "10c4", ID_MODEL_ID |-> "ea60",
                   ID_USB_INTERFACE_NUM |-> "00", ID_SERIAL |-> "S0"]],
     paths |-> {"/dev/video0"}, environ |-> DefaultEnviron, uid |-> 1000]

\* The runs that are checked: every device list on every lifecycle host; every
\* resource and volume setting; every environment setting; every document.
Runs ==
    [config : [doc : {ValidDoc}, resources : {DefaultResources},
               environment : {DefaultEnvironment}, volumes : {<<>>},
               devices : SeqsUpTo(DevicePool, MaxDevices)],
     host : [udev : LifecycleUdevs, paths : {{}, {"/dev/video0"}},
             environ : {DefaultEnviron}, uid : {1000}],
     dry_run : BOOLEAN, force : {FALSE}, container : {"running"}]
    \cup
    [config : [doc : {ValidDoc}, resources : ResourcePool,
               environment : {DefaultEnvironment},
               volumes : SeqsUpTo(VolumePool, MaxVolumes), devices : {TwoDevices}],
     host : {FullHost}, dry_run : BOOLEAN, force : {FALSE}, container : {"not_exists"}]
    \cup
    [config : [doc : {ValidDoc}, resources : {DefaultResources},
               environment : EnvironmentPool, volumes : {<<>>}, devices : {TwoDevices}],
     host : [udev : {FullHost.udev}, paths : {FullHost.paths},
             environ : {DefaultEnviron, [HOME |-> "/root"]}, uid : {1000, 0}],
     dry_run : BOOLEAN, force : {FALSE}, container : {"not_exists"}]
    \cup
    [config : [doc : DocPool, resources : {DefaultResources},
               environment : {DefaultEnvironment}, volumes : {<<>>},
               devices : {TwoDevices, <<>>}],
     host : {FullHost}, dry_run : BOOLEAN, force : BOOLEAN,
     container : {"not_exists", "running", "stopped"}]

-----------------------------------------------------------------------------
(* Specification Spec: one execution of main *)

Init ==
    /\ \E r \in Runs :
          /\ config = r.config /\ host = r.host /\ dry_run = r.dry_run
          /\ force = r.force /\ container = r.container
    /\ pc = "main"
    /\ tty_devices = <<>>
    /\ request = None /\ found = None
    /\ executed = <<>> /\ results = <<>> /\ deviceWork = {} /\ command = <<>> /\ stdout = <<>>
    /\ firstBuild = <<>>
    /\ interrupted = None
    /\ exitCode = -1

\* sys.exit(code), or the end of the interpreter with that status
Exit(code) == pc' = "exited" /\ exitCode' = code

\* what a subprocess.run call can do: return, raise CalledProcessError (the
\* program ran and failed), raise FileNotFoundError (the program is not
\* installed), or be interrupted by the user (KeyboardInterrupt)
Outcomes == {"ok", "fail", "missing", "interrupt"}

\* the values start computes from the document
start_container_name == _get_config(<<"container", "name">>, "")
start_image_repository == _get_config(<<"container", "image", "repository">>, "")
start_image_tag == _get_config(<<"container", "image", "tag">>, "")
start_image_name == start_image_repository \o ":" \o start_image_tag

\* DockerRunner.run: the names it uses
final_container_name == Or(start_container_name, container_config.name)
final_image_name ==
    Or(start_image_name,
       Str(container_config.image_repository) \o ":" \o Str(container_config.image_tag))

\* run with the two "if not dry_run" tests forgotten
RunEntryAlwaysStops ==
    IF ~Truthy(final_container_name) \/ ~Truthy(final_image_name)
    THEN Exit(1)
    ELSE pc' = "status" /\ UNCHANGED exitCode

\* run that builds the command, and so resolves the devices, before it
\* touches the existing container
RunEntryResolvesFirst ==
    IF ~Truthy(final_container_name) \/ ~Truthy(final_image_name)
    THEN Exit(1)
    ELSE pc' = "build" /\ UNCHANGED exitCode

\* the call self.runner.run(container_name, image_name, dry_run) up to its
\* first external call
RunEntry ==
    IF ~Truthy(final_container_name) \/ ~Truthy(final_image_name)
    THEN Exit(1)
    ELSE pc' = (IF dry_run THEN "build" ELSE "status") /\ UNCHANGED exitCode

\* main: starter = DockerStarter(args.config)
Construct ==
    /\ pc = "main"
    /\ \E usbListing \in Perms(GlobSet(85)), acmListing \in Perms(GlobSet(65)) :
          tty_devices' = _scan_tty_devices(usbListing, acmListing)
    /\ deviceWork' = deviceWork \cup {<<"scan", 0>>}
    /\ IF parse_container_raises THEN Exit(1)
       ELSE pc' = "start" /\ UNCHANGED exitCode
    /\ UNCHANGED <<config, host, dry_run, force, request, found, executed, results,
                   command, stdout, container, firstBuild, interrupted>>

\* DockerStarter.start up to its first external call after _check_docker
Start ==
    /\ pc = "start"
    /\ \E outcome \in Outcomes :
          /\ interrupted' = IF ~dry_run /\ outcome = "interrupt"
                            THEN "docker --version" ELSE interrupted
          /\ executed' = IF dry_run THEN executed
                         ELSE Append(executed, <<"docker", "--version">>)
          /\ results' = IF dry_run THEN results ELSE Append(results, outcome)
          /\ IF ~dry_run /\ outcome = "interrupt" THEN Exit(130)
             ELSE IF ~dry_run /\ outcome \in {"fail", "missing"} THEN Exit(1)
             ELSE IF \/ ~Truthy(start_container_name)
                     \/ ~Truthy(start_image_repository)
                     \/ ~Truthy(start_image_tag)
             THEN Exit(1)
             ELSE IF dry_run THEN RunEntry
             ELSE pc' = (IF force THEN "pull" ELSE "check_image") /\ UNCHANGED exitCode
    /\ UNCHANGED <<config, host, dry_run, force, tty_devices, request, found,
                   deviceWork, command, stdout, container, firstBuild>>

\* DockerStarter._check_image_exists and the decision to pull; the result
\* "absent" is a listing that returned without the image name in it
CheckImage ==
    /\ pc = "check_image"
    /\ \E outcome \in Outcomes \cup {"absent"} :
          /\ interrupted' = IF outcome = "interrupt" THEN "docker images" ELSE interrupted
          /\ executed' = Append(executed,
                <<"docker", "images", "--format", "{{.Repository}}:{{.Tag}}",
                  start_image_name>>)
          /\ results' = Append(results, outcome)
          /\ IF outcome = "interrupt" THEN Exit(130)
             ELSE IF outcome = "missing" THEN Exit(1)
             ELSE IF outcome # "ok" THEN pc' = "pull" /\ UNCHANGED exitCode
             ELSE RunEntry
    /\ UNCHANGED <<config, host, dry_run, force, tty_devices, request, found,
                   deviceWork, command, stdout, container, firstBuild>>

\* _pull_image that tries a second time when the first pull fails
PullRetriesOnce ==
    /\ pc = "pull"
    /\ \E outcome \in Outcomes :
          /\ interrupted' = IF outcome = "interrupt" THEN "docker pull" ELSE interrupted
          /\ executed' = Append(executed, <<"docker", "pull", start_image_name>>)
          /\ results' = Append(results, outcome)
          /\ IF outcome = "interrupt" THEN Exit(130)
             ELSE IF outcome = "fail" /\ executed[Len(executed)][2] # "pull"
             THEN pc' = "pull" /\ UNCHANGED exitCode
             ELSE IF outcome \in {"fail", "missing"} THEN Exit(1)
             ELSE RunEntry
    /\ UNCHANGED <<config, host, dry_run, force, tty_devices, request, found,
                   deviceWork, command, stdout, container, firstBuild>>

\* DockerStarter._pull_image
Pull ==
    /\ pc = "pull"
    /\ \E outcome \in Outcomes :
          /\ interrupted' = IF outcome = "interrupt" THEN "docker pull" ELSE interrupted
          /\ executed' = Append(executed, <<"docker", "pull", start_image_name>>)
          /\ results' = Append(results, outcome)
          /\ IF outcome = "interrupt" THEN Exit(130)
             ELSE IF outcome \in {"fail", "missing"} THEN Exit(1)
             ELSE RunEntry
    /\ UNCHANGED <<config, host, dry_run, force, tty_devices, request, found,
                   deviceWork, command, stdout, container, firstBuild>>

\* DockerRunner._get_container_status, called by _stop_and_remove_container:
\* the listing of all containers and, when the name is in it, the listing of
\* the running ones
ContainerStatus ==
    /\ pc = "status"
    /\ \E first \in Outcomes, second \in Outcomes :
          LET two == first = "ok" /\ container # "not_exists"
              last == IF two THEN second ELSE first
              status == IF last = "fail" THEN "error" ELSE container
          IN /\ interrupted' = IF last = "interrupt" THEN "docker ps" ELSE interrupted
             /\ executed' =
                   executed \o <<<<"docker", "ps", "-a", "--format", "{{.Names}}">>>>
                   \o (IF two THEN <<<<"docker", "ps", "--format", "{{.Names}}">>>>
                       ELSE <<>>)
             /\ results' = results \o <<first>> \o (IF two THEN <<second>> ELSE <<>>)
             /\ IF last = "interrupt" THEN Exit(130)
                ELSE IF last = "missing" THEN Exit(1)
                ELSE /\ pc' = CASE status = "not_exists" -> "x11"
                                [] status = "running" -> "stop"
                                [] OTHER -> "rm"
                     /\ UNCHANGED exitCode
    /\ UNCHANGED <<config, host, dry_run, force, tty_devices, request, found,
                   deviceWork, command, stdout, container, firstBuild>>

\* _stop_and_remove_container: docker stop
Stop ==
    /\ pc = "stop"
    /\ \E outcome \in Outcomes :
          /\ interrupted' = IF outcome = "interrupt" THEN "docker stop" ELSE interrupted
          /\ executed' = Append(executed, <<"docker", "stop", final_container_name>>)
          /\ results' = Append(results, outcome)
          /\ IF outcome = "interrupt" THEN Exit(130) /\ UNCHANGED container
             ELSE IF outcome \in {"fail", "missing"} THEN Exit(1) /\ UNCHANGED container
             ELSE pc' = "rm" /\ container' = "stopped" /\ UNCHANGED exitCode
    /\ UNCHANGED <<config, host, dry_run, force, tty_devices, request, found,
                   deviceWork, command, stdout, firstBuild>>

\* docker rm with its exit status ignored (check=False)
RemoveUnchecked ==
    /\ pc = "rm"
    /\ \E outcome \in Outcomes :
          /\ interrupted' = IF outcome = "interrupt" THEN "docker rm" ELSE interrupted
          /\ executed' = Append(executed, <<"docker", "rm", "-f", final_container_name>>)
          /\ results' = Append(results, outcome)
          /\ IF outcome = "interrupt" THEN Exit(130) /\ UNCHANGED container
             ELSE IF outcome = "missing" THEN Exit(1) /\ UNCHANGED container
             ELSE /\ pc' = "x11" /\ UNCHANGED exitCode
                  /\ container' = IF outcome = "ok" THEN "not_exists" ELSE container
    /\ UNCHANGED <<config, host, dry_run, force, tty_devices, request, found,
                   deviceWork, command, stdout, firstBuild>>

\* _stop_and_remove_container: docker rm -f
Remove ==
    /\ pc = "rm"
    /\ \E outcome \in Outcomes :
          /\ interrupted' = IF outcome = "interrupt" THEN "docker rm" ELSE interrupted
          /\ executed' = Append(executed, <<"docker", "rm", "-f", final_container_name>>)
          /\ results' = Append(results, outcome)
          /\ IF outcome = "interrupt" THEN Exit(130) /\ UNCHANGED container
             ELSE IF outcome \in {"fail", "missing"} THEN Exit(1) /\ UNCHANGED container
             ELSE pc' = "x11" /\ container' = "not_exists" /\ UNCHANGED exitCode
    /\ UNCHANGED <<config, host, dry_run, force, tty_devices, request, found,
                   deviceWork, command, stdout, firstBuild>>

\* DockerRunner._setup_x11_access: check=False, and every Exception is caught
SetupX11 ==
    /\ pc = "x11"
    /\ \E outcome \in Outcomes :
          /\ interrupted' = IF outcome = "interrupt" THEN "xhost" ELSE interrupted
          /\ executed' = Append(executed, <<"xhost", "+local:">>)
          /\ results' = Append(results, outcome)
          /\ IF outcome = "interrupt" THEN Exit(130)
             ELSE pc' = "build" /\ UNCHANGED exitCode
    /\ UNCHANGED <<config, host, dry_run, force, tty_devices, request, found,
                   deviceWork, command, stdout, container, firstBuild>>

\* the lines map_devices prints when devices failed
FailureLines ==
    LET failed == failed_devices(config.devices) IN
    IF failed = <<>> THEN <<>>
    ELSE IF dry_run THEN [k \in 1..Len(failed) |-> "[fail] " \o failed[k][1]]
    ELSE <<"press any key to exit...">>

\* map_devices that never exits the process
MapDevicesNeverExits == FALSE

\* map_devices that exits the process in a dry run too
MapDevicesAlwaysExits == failed_devices(config.devices) # <<>>

\* map_devices exits the process: a device failed and this is no dry run
MapDevicesExits == failed_devices(config.devices) # <<>> /\ ~dry_run

\* DockerRunner.run from _build_docker_command to the dry-run return
Build ==
    /\ pc = "build"
    /\ deviceWork' = deviceWork \cup DeviceLookups(config.devices)
    /\ IF MapDevicesExits
       THEN /\ stdout' = stdout \o FailureLines
            /\ Exit(1)
            /\ UNCHANGED command
       ELSE LET cmd == build(_build_docker_command(final_container_name, final_image_name))
            IN /\ command' = cmd
               /\ stdout' = stdout \o FailureLines
                     \o [k \in 1..Len(ResolvedMappings) |->
                            _log_device_mapping(ResolvedMappings[k])]
                     \o (IF dry_run THEN <<"", Join(cmd, " ")>> ELSE <<>>)
               /\ IF dry_run THEN Exit(0)
                  ELSE pc' = "launch" /\ UNCHANGED exitCode
    /\ UNCHANGED <<config, host, dry_run, force, tty_devices, request, found,
                   executed, results, container, firstBuild, interrupted>>

\* DockerRunner.run: subprocess.run(command, check=True)
Launch ==
    /\ pc = "launch"
    /\ \E outcome \in Outcomes :
          /\ interrupted' = IF outcome = "interrupt" THEN "docker run" ELSE interrupted
          /\ executed' = Append(executed, command)
          /\ results' = Append(results, outcome)
          /\ IF outcome = "ok"
             THEN pc' = "enter" /\ container' = "running" /\ UNCHANGED exitCode
             ELSE Exit(1) /\ UNCHANGED container   \* both except clauses return False
    /\ UNCHANGED <<config, host, dry_run, force, tty_devices, request, found,
                   deviceWork, command, stdout, firstBuild>>

\* DockerStarter._enter_container, and the return of start to main
EnterContainer ==
    /\ pc = "enter"
    /\ \E outcome \in Outcomes :
          LET cmd == _get_config(<<"container", "command">>, "bash")
              exec_mode == _get_config(<<"container", "exec_mode">>, "interactive")
          IN /\ interrupted' = IF outcome = "interrupt" THEN "docker exec" ELSE interrupted
             /\ executed' = Append(executed,
                   IF exec_mode = "command"
                   THEN <<"docker", "exec", "-it", start_container_name, "bash", "-c", cmd>>
                   ELSE <<"docker", "exec", "-it", start_container_name, cmd>>)
             /\ results' = Append(results, outcome)
             /\ IF outcome \in {"fail", "missing"} THEN Exit(1)
                ELSE Exit(0)
    /\ UNCHANGED <<config, host, dry_run, force, tty_devices, request, found,
                   deviceWork, command, stdout, container, firstBuild>>

Next ==
    \/ Construct
    \/ Start
    \/ CheckImage
    \/ Pull
    \/ ContainerStatus
    \/ Stop
    \/ Remove
    \/ SetupX11
    \/ Build
    \/ Launch
    \/ EnterContainer

Spec == Init /\ [][Next]_vars

-----------------------------------------------------------------------------
(* Specification SpecMatch: direct calls of find_by_usb_id *)

InitMatch ==
    /\ host \in [udev : UdevDatabases, paths : {{}}, environ : {DefaultEnviron},
                 uid : {1000}]
    /\ request \in MatchRequests
    /\ pc = "finder"
    /\ tty_devices = <<>>
    /\ found = None
    /\ config = <<>> /\ dry_run = FALSE /\ force = FALSE
    /\ executed = <<>> /\ results = <<>> /\ deviceWork = {} /\ command = <<>> /\ stdout = <<>>
    /\ container = "not_exists" /\ firstBuild = <<>> /\ interrupted = None /\ exitCode = -1

\* TTYDeviceFinder.__init__
NewFinder ==
    /\ pc = "finder"
    /\ \E usbListing \in Perms(GlobSet(85)), acmListing \in Perms(GlobSet(65)) :
          tty_devices' = _scan_tty_devices(usbListing, acmListing)
    /\ pc' = "find"
    /\ UNCHANGED <<config, host, dry_run, force, request, found, executed, results,
                   deviceWork, command, stdout, container, firstBuild, interrupted,
                   exitCode>>

\* a call finder.find_by_usb_id(vendor_id, product_id, usb_interface, usb_serial)
CallFind ==
    /\ pc = "find"
    /\ found' = find_by_usb_id(request.vendor_id, request.product_id,
                               request.usb_interface, request.usb_serial)
    /\ pc' = "found"
    /\ UNCHANGED <<config, host, dry_run, force, tty_devices, request, executed, results,
                   deviceWork, command, stdout, container, firstBuild, interrupted,
                   exitCode>>

NextMatch == NewFinder \/ CallFind

SpecMatch == InitMatch /\ [][NextMatch]_vars

-----------------------------------------------------------------------------
(* C3 *)

\* node n has the given vendor and product, and the given interface and
\* serial where they are given
FitsId(n, vendor_id, product_id, usb_interface, usb_serial) ==
    LET info == host.udev[n] IN
    /\ "ID_VENDOR_ID" \in DOMAIN info /\ info["ID_VENDOR_ID"] = vendor_id
    /\ "ID_MODEL_ID" \in DOMAIN info /\ info["ID_MODEL_ID"] = product_id
    /\ usb_interface # None =>
          /\ "ID_USB_INTERFACE_NUM" \in DOMAIN info
          /\ info["ID_USB_INTERFACE_NUM"] = usb_interface
    /\ usb_serial # None =>
          /\ "ID_SERIAL" \in DOMAIN info
          /\ info["ID_SERIAL"] = usb_serial

Fits(n) ==
    FitsId(n, request.vendor_id, request.product_id, request.usb_interface,
           request.usb_serial)

\* C3: find_by_usb_id returns the lexicographically first node of the
\* inventory that has the requested vendor and product ids and passes the
\* interface and serial filters that were supplied, and None when no node
\* does.
C3_MatcherSpecificity ==
    pc = "found" =>
        IF \E n \in DOMAIN host.udev : Fits(n)
        THEN /\ found \in DOMAIN host.udev
             /\ Fits(found)
             /\ \A m \in DOMAIN host.udev : Fits(m) => (m = found \/ StrLess(found, m))
        ELSE found = None

\* Two nodes with the same vendor and product and different interface
\* numbers; the interface filter selected the later one.
C3_Witness ==
    /\ pc = "found"
    /\ request.usb_interface # None
    /\ found # None
    /\ \E a \in DOMAIN host.udev :
          /\ StrLess(a, found)
          /\ Get(host.udev[a], "ID_VENDOR_ID") = request.vendor_id
          /\ Get(host.udev[a], "ID_MODEL_ID") = request.product_id
          /\ Get(host.udev[a], "ID_USB_INTERFACE_NUM") # request.usb_interface
          /\ Get(host.udev[a], "ID_USB_INTERFACE_NUM") # None

-----------------------------------------------------------------------------
(* Specification SpecBuild: the launch command of one configuration on one  *)
(* inventory, built by two dry runs of the program                          *)

Environs == {DefaultEnviron, [HOME |-> "/home/dev"], [DISPLAY |-> ":0", HOME |-> "/home/dev"]}
Uids == {1000, 0}

InitBuild ==
    /\ config \in [doc : {ValidDoc}, resources : {DefaultResources},
                   environment : EnvironmentPool,
                   volumes : {<<Volume(<<"~", "ws">>, "/ws", TRUE, "rw")>>},
                   devices : SeqsUpTo(DevicePool, MaxDevices)]
    /\ host \in [udev : LifecycleUdevs, paths : {{"/dev/video0"}},
                 environ : Environs, uid : Uids]
    /\ dry_run = TRUE /\ force = FALSE
    /\ pc = "scan1"
    /\ tty_devices = <<>>
    /\ request = None /\ found = None
    /\ executed = <<>> /\ results = <<>> /\ deviceWork = {} /\ command = <<>> /\ stdout = <<>>
    /\ container = "not_exists" /\ firstBuild = <<>> /\ interrupted = None
    /\ exitCode = -1

\* DockerStarter(args.config) in each of the two runs: a fresh scan
ScanForBuild ==
    /\ pc \in {"scan1", "scan2"}
    /\ \E usbListing \in Perms(GlobSet(85)), acmListing \in Perms(GlobSet(65)) :
          tty_devices' = _scan_tty_devices(usbListing, acmListing)
    /\ pc' = IF pc = "scan1" THEN "build1" ELSE "build2"
    /\ UNCHANGED <<config, host, dry_run, force, request, found, executed, results,
                   deviceWork, command, stdout, container, firstBuild, interrupted,
                   exitCode>>

\* DockerRunner.run(dry_run=True): _build_docker_command and build
Assemble ==
    /\ pc \in {"build1", "build2"}
    /\ LET cmd == build(_build_docker_command(final_container_name, final_image_name))
       IN IF pc = "build1"
          THEN /\ firstBuild' = [command |-> cmd, environ |-> host.environ,
                                 uid |-> host.uid]
               /\ pc' = "scan2"
               /\ UNCHANGED command
          ELSE /\ command' = cmd
               /\ pc' = "done"
               /\ UNCHANGED firstBuild
    /\ UNCHANGED <<config, host, dry_run, force, tty_devices, request, found,
                   executed, results, deviceWork, stdout, container, interrupted, exitCode>>

\* between the two runs the user's session changes: another DISPLAY, another
\* user
ChangeEnvironment ==
    /\ pc = "scan2"
    /\ \E e \in Environs, u \in Uids :
          /\ <<e, u>> # <<host.environ, host.uid>>
          /\ host' = [host EXCEPT !.environ = e, !.uid = u]
    /\ UNCHANGED <<config, dry_run, force, pc, tty_devices, request, found,
                   executed, results, deviceWork, command, stdout, container, firstBuild,
                   interrupted, exitCode>>

NextBuild == ScanForBuild \/ Assemble \/ ChangeEnvironment

SpecBuild == InitBuild /\ [][NextBuild]_vars

-----------------------------------------------------------------------------
(* What the claims say of a device list and a host, stated on the            *)
(* configuration and the host alone                                           *)

UsbKind(d) == d.usb_vendor # None /\ d.usb_product # None

FittingNodes(d) ==
    { n \in DOMAIN host.udev :
        FitsId(n, d.usb_vendor, d.usb_product, d.usb_interface, d.usb_serial) }

FirstFitting(d) ==
    CHOOSE n \in FittingNodes(d) : \A m \in FittingNodes(d) : m = n \/ StrLess(n, m)

\* the device resolves to a host node
Resolves(d) ==
    IF UsbKind(d) THEN FittingNodes(d) # {}
    ELSE d.path # None /\ d.path # "" /\ d.path \in (host.paths \cup DOMAIN host.udev)

EnabledDevices == { i \in 1..Len(config.devices) : config.devices[i].enabled }
ResolvedDevices == { i \in EnabledDevices : Resolves(config.devices[i]) }
FailedDevices == { i \in EnabledDevices : ~Resolves(config.devices[i]) }

\* the host node of a resolving device
HostNode(d) == IF UsbKind(d) THEN FirstFitting(d) ELSE d.path

ContainerPath(d) ==
    IF d.container_path # None /\ d.container_path # "" THEN d.container_path
    ELSE "/dev/" \o d.name

\* the values of a flag in an argument list
ValuesOf(cmd, flag) ==
    LET at == SelectSeq([i \in 1..Len(cmd) |-> i],
                        LAMBDA i : i > 1 /\ cmd[i - 1] = flag)
    IN [k \in 1..Len(at) |-> cmd[at[k]]]

\* the resolving devices in declaration order
ResolvedInOrder ==
    SelectSeq([i \in 1..Len(config.devices) |-> i], LAMBDA i : i \in ResolvedDevices)

Executed(sub) ==
    \E k \in 1..Len(executed) :
        Len(executed[k]) >= 2 /\ executed[k][1] = "docker" /\ executed[k][2] = sub

\* the three required fields are in the document and are non-empty strings
RequiredFieldsGiven ==
    \A keys \in { <<"container", "name">>, <<"container", "image", "repository">>,
                  <<"container", "image", "tag">> } :
        keys \in DOMAIN config.doc /\ config.doc[keys] \notin {None, "", Dict}

-----------------------------------------------------------------------------
(* C1 *)

\* C1: in a run that is no dry run, when an enabled device does not resolve,
\* no 'docker run' command is built or executed, and if the process has
\* exited its status is not 0.
C1_FailClosed ==
    (~dry_run /\ FailedDevices # {}) =>
        /\ command = <<>>
        /\ ~Executed("run")
        /\ pc = "exited" => exitCode # 0

\* map_devices aborted a run in which another enabled device had resolved
C1_Witness ==
    /\ ~dry_run /\ pc = "exited" /\ exitCode = 1
    /\ FailedDevices # {} /\ ResolvedDevices # {}
    /\ stdout = <<"press any key to exit...">>

-----------------------------------------------------------------------------
(* C2 *)

\* C2: a dry run of a configuration that gives the three required fields
\* exits with status 0 whether or not enabled devices fail to resolve, and the
\* command it prints has one '--device' pair for each enabled device that
\* resolved, naming that device's host node, and no other '--device' pair.
C2_FailOpen ==
    (dry_run /\ pc = "exited" /\ RequiredFieldsGiven) =>
        /\ exitCode = 0
        /\ stdout # <<>> /\ stdout[Len(stdout)] = Join(command, " ")
        /\ LET args == ValuesOf(command, "--device") IN
           /\ Len(args) = Len(ResolvedInOrder)
           /\ \A k \in 1..Len(args) :
                 LET d == config.devices[ResolvedInOrder[k]] IN
                 IF UsbKind(d)
                 THEN args[k] \in { HostNode(d) \o ":" \o ContainerPath(d) \o ":" \o o :
                                       o \in {"rw", d.options} }
                 ELSE args[k] = HostNode(d) \o ":" \o d.options

\* a dry run ended with status 0 with one device resolved and one failed
C2_Witness ==
    /\ dry_run /\ pc = "exited" /\ exitCode = 0
    /\ FailedDevices # {} /\ ResolvedDevices # {}
    /\ Len(ValuesOf(command, "--device")) = 1

-----------------------------------------------------------------------------
(* C4 *)

\* C4: the device argument of every enabled USB-kind device that resolves is
\* "{node}:{effective container path}:{options}" with the device's own
\* options.
C4_UsbArgCarriesOptions ==
    command # <<>> =>
        LET args == ValuesOf(command, "--device") IN
        \A k \in 1..Len(args) :
            LET d == config.devices[ResolvedInOrder[k]] IN
            UsbKind(d) =>
                args[k] = HostNode(d) \o ":" \o ContainerPath(d) \o ":" \o d.options

-----------------------------------------------------------------------------
(* C5 *)

\* C5: a device with enabled = false is never looked up on the host (no USB
\* match, no path check), is never reported as failed, never makes a normal
\* run abort, and adds no '--device' pair to the command; a volume with
\* enabled = false adds no '-v' pair.
C5_DisabledExcluded ==
    /\ \A w \in deviceWork : w[1] \in {"match", "exists"} => w[2] \in EnabledDevices
    /\ \A k \in 1..Len(config.devices) :
          ~config.devices[k].enabled =>
              \A j \in 1..Len(stdout) : stdout[j] # "[fail] " \o config.devices[k].name
    /\ FailedDevices = {} => \A j \in 1..Len(stdout) : stdout[j] # "press any key to exit..."
    /\ command # <<>> =>
          /\ Len(ValuesOf(command, "--device")) = Cardinality(ResolvedDevices)
          /\ LET on == SelectSeq(config.volumes, LAMBDA v : v.enabled)
                 vols == ValuesOf(command, "-v")
             IN /\ Len(vols) = Len(on)
                /\ \A k \in 1..Len(on) :
                      vols[k] = (IF on[k].source[1] = "~"
                                 THEN host.environ["HOME"] ELSE "")
                                \o "/" \o on[k].source[2] \o ":" \o on[k].target
                                \o ":" \o on[k].options

\* a normal run built its command although a disabled device would not have
\* resolved
C5_Witness ==
    /\ ~dry_run /\ pc = "launch" /\ command # <<>>
    /\ \E i \in 1..Len(config.devices) :
          ~config.devices[i].enabled /\ ~Resolves(config.devices[i])

-----------------------------------------------------------------------------
(* C6 *)

NetworkPairs(cmd) ==
    { i \in 1..Len(cmd) : cmd[i] = "--network" }

\* C6 as stated: no '--network' token for the mode "bridge", exactly one
\* '--network <value>' pair for every other mode.
C6_AnyOtherValue ==
    command # <<>> =>
        IF config.resources.network = "bridge"
        THEN NetworkPairs(command) = {}
        ELSE /\ Cardinality(NetworkPairs(command)) = 1
             /\ ValuesOf(command, "--network") = <<config.resources.network>>

\* C6 amended: no '--network' token for the mode "bridge", for the empty
\* string and for null; exactly one '--network <value>' pair for every other
\* mode.
C6_NetworkFlag ==
    command # <<>> =>
        IF config.resources.network \in {"bridge", "", None}
        THEN NetworkPairs(command) = {}
        ELSE /\ Cardinality(NetworkPairs(command)) = 1
             /\ ValuesOf(command, "--network") = <<config.resources.network>>

\* a command was built for the mode "host"
C6_Witness ==
    /\ command # <<>>
    /\ config.resources.network = "host"
    /\ ValuesOf(command, "--network") = <<"host">>

-----------------------------------------------------------------------------
(* C7 *)

\* the arguments C7 places before the device pairs
ArgsBeforeDevices ==
    <<"docker", "run", "-d", "--name", Str(config.doc[<<"container", "name">>])>>
    \o (IF config.resources.network \in {"bridge", "", None} THEN <<>>
        ELSE <<"--network", config.resources.network>>)
    \o (IF config.resources.privileged THEN <<"--privileged">> ELSE <<>>)
    \o (IF config.resources.gpu_enabled
        THEN SelectSeq(config.resources.gpu_options, LAMBDA w : w \notin {" ", "  "})
        ELSE <<>>)
    \o Flatten([k \in 1..Len(config.volumes) |->
          IF config.volumes[k].enabled
          THEN <<"-v", (IF config.volumes[k].source[1] = "~"
                        THEN host.environ["HOME"] ELSE "")
                       \o "/" \o config.volumes[k].source[2]
                       \o ":" \o config.volumes[k].target
                       \o ":" \o config.volumes[k].options>>
          ELSE <<>>])

\* the arguments C7 places after the device pairs
ArgsAfterDevices ==
    <<"-e", "ROS_DOMAIN_ID=0", "-e", "ROS_LOCALHOST_ONLY=0",
      "-e", "DISPLAY=" \o (IF config.environment.auto_detect_display
                              /\ "DISPLAY" \in DOMAIN host.environ
                           THEN host.environ["DISPLAY"]
                           ELSE config.environment.display),
      "-e", "PULSE_SERVER=" \o (IF config.environment.pulse_server \notin {None, ""}
                                THEN config.environment.pulse_server
                                ELSE IF host.uid = 0 THEN "unix:/run/user/0/pulse/native"
                                ELSE "unix:/run/user/1000/pulse/native"),
      Str(config.doc[<<"container", "image", "repository">>]) \o ":"
          \o Str(config.doc[<<"container", "image", "tag">>]),
      "tail", "-f", "/dev/null">>

-----------------------------------------------------------------------------
(* C8 *)

\* C8 as stated: with the inventory and the configuration fixed, two builds
\* give the same argument list, whatever else differs between them.
C8_NothingElseMatters ==
    pc = "done" => command = firstBuild.command

\* C8 amended: with the inventory, the configuration and the process
\* environment (DISPLAY, HOME, user id) fixed, two builds give the same
\* argument list.
C8_Determinism ==
    (pc = "done" /\ host.environ = firstBuild.environ /\ host.uid = firstBuild.uid)
        => command = firstBuild.command

\* two builds in the same environment, on a host where two nodes fit a device
C8_Witness ==
    /\ pc = "done"
    /\ host.environ = firstBuild.environ /\ host.uid = firstBuild.uid
    /\ command = firstBuild.command
    /\ \E i \in ResolvedDevices :
          UsbKind(config.devices[i]) /\ Cardinality(FittingNodes(config.devices[i])) = 2

-----------------------------------------------------------------------------
(* C9 *)

\* one of the three required fields is absent, null or empty
RequiredFieldMissing ==
    \E keys \in { <<"container", "name">>, <<"container", "image", "repository">>,
                  <<"container", "image", "tag">> } :
        keys \notin DOMAIN config.doc \/ config.doc[keys] \in {None, ""}

\* C9: when a required field is absent, null or empty, the process ends with
\* a status other than 0, and at that point no device work (inventory scan,
\* identity lookup, path check) and no command work (docker stop, rm, pull,
\* run or exec, command assembly) has been performed.
C9_ConfigErrorFatalBeforeWork ==
    (RequiredFieldMissing /\ pc = "exited") =>
        /\ exitCode # 0
        /\ deviceWork = {}
        /\ command = <<>>
        /\ \A sub \in {"stop", "rm", "pull", "run", "exec"} : ~Executed(sub)

-----------------------------------------------------------------------------
(* C10 *)

\* C10: a KeyboardInterrupt that arrives in 'docker run' or in 'docker exec'
\* ends the process with a status other than 0, and the interrupted command
\* is the last one executed.
C10_InterruptNonZero ==
    interrupted \in {"docker run", "docker exec"} =>
        /\ pc = "exited"
        /\ exitCode # 0
        /\ LET last == executed[Len(executed)] IN
           last[1] = "docker" /\ "docker " \o last[2] = interrupted

-----------------------------------------------------------------------------
(* The external commands of a run *)

\* the positions in the run at which 'docker <sub>' was executed
CallsOf(sub) ==
    { k \in 1..Len(executed) :
        Len(executed[k]) >= 2 /\ executed[k][1] = "docker" /\ executed[k][2] = sub }

\* the positions at which 'xhost' was executed
XhostCalls == { k \in 1..Len(executed) : executed[k][1] = "xhost" }

-----------------------------------------------------------------------------
(* C11 *)

\* C11: in a dry run none of 'docker stop', 'docker rm', 'docker pull',
\* 'docker run', 'docker exec' and 'xhost' is ever executed, and a dry run
\* that ends with status 0 has printed the launch command it computed as its
\* last line.
C11_DryRunNoMutation ==
    dry_run =>
        /\ \A sub \in {"stop", "rm", "pull", "run", "exec"} : CallsOf(sub) = {}
        /\ XhostCalls = {}
        /\ (pc = "exited" /\ exitCode = 0) =>
              /\ command # <<>>
              /\ stdout # <<>> /\ stdout[Len(stdout)] = Join(command, " ")

\* a forced dry run ended with its command printed while a container of the
\* configured name was running: the container was left as it was
C11_Witness ==
    /\ dry_run /\ force /\ pc = "exited" /\ exitCode = 0
    /\ container = "running"
    /\ command # <<>> /\ stdout[Len(stdout)] = Join(command, " ")
    /\ executed = <<>>

-----------------------------------------------------------------------------
(* C12 *)

\* the external command at position k failed: it ran and returned a non-zero
\* status, or its program is not installed
FailedAt(k) == results[k] \in {"fail", "missing"}

\* the commands whose failure C12 calls fatal: the availability check and the
\* five lifecycle subcommands
FatalCalls ==
    UNION { CallsOf(sub) : sub \in {"--version", "stop", "rm", "pull", "run", "exec"} }

\* device resolution or command assembly has been performed
MappingDone ==
    command # <<>> \/ \E w \in deviceWork : w[1] \in {"match", "exists"}

\* C12: in a normal run, when 'docker --version' fails (the tooling is
\* unavailable), when one of 'docker stop', 'docker rm', 'docker pull',
\* 'docker run', 'docker exec' fails, or when docker is found missing at any
\* later call, the process has ended with a status other than 0 and the failed
\* command is the last one executed; when the failure came before the launch,
\* no device was resolved and no command was assembled.
C12_InvocationErrorFatal ==
    ~dry_run =>
        \A k \in 1..Len(executed) :
            (\/ k \in FatalCalls /\ FailedAt(k)
             \/ executed[k][1] = "docker" /\ results[k] = "missing")
            => /\ pc = "exited" /\ exitCode # 0
               /\ k = Len(executed)
               /\ k \notin (CallsOf("run") \cup CallsOf("exec")) => ~MappingDone

\* 'docker stop' succeeded and the 'docker rm' after it failed: the run ended
\* there with status 1
C12_Witness ==
    /\ ~dry_run /\ pc = "exited" /\ exitCode = 1
    /\ executed # <<>> /\ Len(executed) \in CallsOf("rm")
    /\ results[Len(results)] = "fail"
    /\ CallsOf("stop") # {} /\ container = "stopped"
    /\ XhostCalls = {} /\ ~MappingDone

-----------------------------------------------------------------------------
(* C13 *)

\* what C13 says of the commands executed so far
StepsInOrder ==
    /\ \A sub \in {"pull", "run", "exec"} : Cardinality(CallsOf(sub)) <= 1
    /\ \A r \in CallsOf("run") :
          /\ FailedDevices = {}
          /\ \A k \in CallsOf("stop") \cup CallsOf("rm") : k < r /\ results[k] = "ok"
          /\ \A k \in CallsOf("ps") : k < r
          \* a container was found, or the query failed: it was removed
          /\ (Cardinality(CallsOf("ps")) = 2 \/ \E k \in CallsOf("ps") : FailedAt(k))
                => CallsOf("rm") # {}
    /\ \A e \in CallsOf("exec") :
          \E r \in CallsOf("run") : r < e /\ results[r] = "ok"

\* the step executes 'docker run'
RunStep == Cardinality(CallsOf("run")') > Cardinality(CallsOf("run"))

\* C13: in a normal run each of 'docker pull', 'docker run' and 'docker exec'
\* is executed at most once; 'docker run' is executed only when every enabled
\* device resolved, after every 'docker stop' and 'docker rm' of the run
\* returned success, and at a moment when no container of the configured name
\* exists; 'docker exec' is executed only after a 'docker run' that returned
\* success.
C13_NoRetryStrictOrder ==
    /\ [](~dry_run => StepsInOrder)
    /\ [][(~dry_run /\ RunStep) => container = "not_exists"]_vars

\* a forced run over a running container went through pull, stop, rm, run and
\* exec, each once and each successful, with both devices resolved
C13_Witness ==
    /\ ~dry_run /\ force /\ pc = "exited" /\ exitCode = 0
    /\ \A sub \in {"pull", "stop", "rm", "run", "exec"} :
          Cardinality(CallsOf(sub)) = 1
    /\ \A k \in 1..Len(results) : results[k] = "ok"
    /\ Cardinality(ResolvedDevices) = 2

-----------------------------------------------------------------------------
(* C14 *)

\* map_devices printed its prompt: the run aborted on a failed device
DeviceAbort ==
    \E j \in 1..Len(stdout) : stdout[j] = "press any key to exit..."

\* device resolution has been reached
ResolutionReached == MappingDone \/ DeviceAbort

\* the image was pulled if it had to be: the run was forced, or the listing
\* of the image failed or did not show it
PulledWhenNeeded ==
    /\ ~force => CallsOf("images") # {}
    /\ (force \/ \E k \in CallsOf("images") : results[k] # "ok")
          => \E k \in CallsOf("pull") : results[k] = "ok"

\* C14: in a normal run, when device resolution has been reached, the image
\* has been pulled if that was needed, the state of the container has been
\* queried, every 'docker stop' and 'docker rm' has returned success, a
\* container that was found (or whose query failed) has been removed, and
\* 'xhost' has been executed after all of these (its result is ignored);
\* when the run then aborts on a failed device, its status is 1, no container
\* of the configured name exists and 'docker run' was not executed.
C14_MutationBeforeResolution ==
    (~dry_run /\ ResolutionReached) =>
        /\ PulledWhenNeeded
        /\ CallsOf("ps") # {}
        /\ \A k \in CallsOf("stop") \cup CallsOf("rm") : results[k] = "ok"
        /\ (Cardinality(CallsOf("ps")) = 2 \/ \E k \in CallsOf("ps") : FailedAt(k))
              => CallsOf("rm") # {}
        /\ Cardinality(XhostCalls) = 1
        /\ \A x \in XhostCalls :
              /\ results[x] # "interrupt"
              /\ \A sub \in {"images", "pull", "ps", "stop", "rm"} :
                    \A k \in CallsOf(sub) : k < x
              /\ \A k \in CallsOf("run") : x < k
        /\ CallsOf("run") = {} => container = "not_exists"
        /\ DeviceAbort =>
              /\ pc = "exited" /\ exitCode = 1
              /\ FailedDevices # {}
              /\ CallsOf("run") = {} /\ command = <<>>

\* a run pulled the image, stopped and removed the running container,
\* executed xhost, and then aborted because one of its two devices failed
C14_Witness ==
    /\ ~dry_run /\ DeviceAbort /\ pc = "exited"
    /\ \A sub \in {"pull", "stop", "rm"} : CallsOf(sub) # {}
    /\ XhostCalls # {}
    /\ container = "not_exists"
    /\ FailedDevices # {} /\ ResolvedDevices # {}

=============================================================================
